---- MODULE Spec2Model ----
(***************************************************************************)
(* Milk-Track: receipt ingestion (capture, compression, AI extraction,     *)
(* manual entry, review/edit, save), the Supabase store behind it          *)
(* (profiles, receipts, storage objects and their row-level-security       *)
(* policies) and the records view.                                         *)
(*                                                                         *)
(* Texts are modelled by what the code does with them:                     *)
(*   - a field value is a record [t, n, dp, s]: t = "absent" (key not in   *)
(*     the object), "null" (JSON null), "text" (a string that is not a     *)
(*     number; s holds its characters, <<>> is the empty string) or "num"  *)
(*     (a numeric string: n is the value in thousandths, dp the number of  *)
(*     decimals the text shows);                                           *)
(*   - a date text is a sequence of one-character strings;                 *)
(*   - the model's response text is a sequence of tokens.                  *)
(* File.lastModified is kept in seconds (the code's milliseconds / 1000).  *)
(***************************************************************************)
EXTENDS Integers, Sequences, FiniteSets, Bags, TLC

VARIABLES
  \* ---- App component state (part_001 lines 25-34)
  user,            \* id of the authenticated user, "none" when logged out
  apiKey,          \* import.meta.env.VITE_GEMINI_API_KEY ("" when not configured)
  tz,              \* local time zone offset of the browser, in seconds
  entryMode,       \* "camera" | "manual"
  selectedImage,   \* preview URL of the compressed blob, NoBlob when null
  compressedBlob,  \* the compressed blob, NoBlob when null
  parsedData,      \* the record under review, NoData when null
  isProcessing,
  isEditing,
  isSaving,
  uploads,         \* bag of the handleImageUpload invocations suspended at an await
  saving,          \* the handleSaveReceipt invocation suspended at an await
  lastAlert,       \* text of the last alert() shown to the user
  \* ---- the Supabase backend
  profiles,        \* profiles table: user id -> role, "none" when no row
  receipts,        \* receipts table: sequence of rows in insertion order
  objects,         \* storage bucket "receipts": set of object paths
  clock,           \* Date.now() as far as file names go: the number of names handed out
  recordsView,     \* Records component state `receipts` (result of the last load)
  lastReq,         \* the last request the backend processed and its outcome
  \* ---- compressImage in isolation
  img,             \* decoded source image [w, h]
  canvas,          \* the canvas compressImage draws on, [w, h]; [w |-> 0, h |-> 0] before
  \* ---- the Records view (aiRecordService.ts lines 79-250)
  globalFilter,    \* Records component state `globalFilter`, a sequence of characters
  groups,          \* what the view renders: the month groups with their rows and totals
  \* ---- AI breeding records and accounts
  aiRecords,       \* ai_records table: sequence of rows in insertion order
  aiView,          \* the rows the last request on ai_records returned to its caller
  accounts         \* auth.users: the ids of the accounts that signed up

sessionVars == <<user, apiKey, tz, entryMode, selectedImage, compressedBlob, parsedData,
                 isProcessing, isEditing, isSaving, uploads, saving, lastAlert>>
storeVars == <<profiles, receipts, objects, clock, recordsView, lastReq>>
imageVars == <<img, canvas>>
extraVars == <<globalFilter, groups, aiRecords, aiView, accounts>>
sessionVarsButSaving == <<user, apiKey, tz, entryMode, selectedImage, compressedBlob,
                          parsedData, isProcessing, isEditing, isSaving, uploads, lastAlert>>
vars == <<user, apiKey, tz, entryMode, selectedImage, compressedBlob, parsedData,
          isProcessing, isEditing, isSaving, uploads, saving, lastAlert,
          profiles, receipts, objects, clock, recordsView, lastReq, img, canvas,
          globalFilter, groups, aiRecords, aiView, accounts>>

----------------------------------------------------------------------------
(* Bounds of the model *)

MaxDim == 4000         \* largest image side drawn in the compressImage specification
MaxObjects == 1        \* objects the storage bucket may hold
MaxRows == 2           \* rows the receipts table may hold in the store specification
MaxUploads == 2        \* handleImageUpload invocations in flight at once

----------------------------------------------------------------------------
(* Field values *)

Absent == [t |-> "absent", n |-> 0, dp |-> 0, s |-> <<>>]
Null == [t |-> "null", n |-> 0, dp |-> 0, s |-> <<>>]
EmptyStr == [t |-> "text", n |-> 0, dp |-> 0, s |-> <<>>]
Txt(chars) == [t |-> "text", n |-> 0, dp |-> 0, s |-> chars]
Num(thousandths, decimals) == [t |-> "num", n |-> thousandths, dp |-> decimals, s |-> <<>>]

\* JavaScript truthiness of a field value: undefined, null and "" are falsy;
\* every other string is truthy (also "0").
Truthy(v) == \/ v.t = "num"
             \/ v.t = "text" /\ v.s # <<>>

\* `v || ''` (part_001 lines 275-283, 304-312)
OrEmpty(v) == IF Truthy(v) THEN v ELSE EmptyStr

Digits == {"0", "1", "2", "3", "4", "5", "6", "7", "8", "9"}

DigitChar(d) == CASE d = 0 -> "0" [] d = 1 -> "1" [] d = 2 -> "2" [] d = 3 -> "3"
                  [] d = 4 -> "4" [] d = 5 -> "5" [] d = 6 -> "6" [] d = 7 -> "7"
                  [] d = 8 -> "8" [] d = 9 -> "9"

DigitVal(c) == CASE c = "0" -> 0 [] c = "1" -> 1 [] c = "2" -> 2 [] c = "3" -> 3
                 [] c = "4" -> 4 [] c = "5" -> 5 [] c = "6" -> 6 [] c = "7" -> 7
                 [] c = "8" -> 8 [] c = "9" -> 9

\* String(n) for a non-negative integer
RECURSIVE ToStr(_)
ToStr(n) == IF n < 10 THEN <<DigitChar(n)>> ELSE ToStr(n \div 10) \o <<DigitChar(n % 10)>>

\* s.padStart(len, '0')
RECURSIVE PadStart(_, _)
PadStart(s, len) == IF Len(s) >= len THEN s ELSE PadStart(<<"0">> \o s, len)

\* value of a sequence of digit characters
RECURSIVE DigitsVal(_)
DigitsVal(s) == IF s = <<>> THEN 0
                ELSE 10 * DigitsVal(SubSeq(s, 1, Len(s) - 1)) + DigitVal(s[Len(s)])

AllDigits(s) == \A i \in 1..Len(s) : s[i] \in Digits

----------------------------------------------------------------------------
(* compressImage: the dimensions of the canvas (part_001 lines 82-96) *)

maxSize == 1600

\* canvas.width = x: the attribute is an unsigned long, a fractional value is
\* truncated towards zero
ToPixels(num, den) == num \div den

CompressDimsSquareSkipped(w, h) ==
  IF w > h /\ w > maxSize THEN [w |-> maxSize, h |-> ToPixels(h * maxSize, w)]
  ELSE IF h > maxSize /\ h > w THEN [w |-> ToPixels(w * maxSize, h), h |-> maxSize]
  ELSE [w |-> w, h |-> h]

CompressDims(w, h) ==
  IF w > h /\ w > maxSize THEN [w |-> maxSize, h |-> ToPixels(h * maxSize, w)]
  ELSE IF h > maxSize THEN [w |-> ToPixels(w * maxSize, h), h |-> maxSize]
  ELSE [w |-> w, h |-> h]

\* image sides the compressImage specification draws from: the small ones,
\* the ones around the cap, and a grid up to MaxDim
ImageSides == {d \in 1..MaxDim : d <= 3 \/ (d >= maxSize - 2 /\ d <= maxSize + 2)
                                  \/ d % 400 = 0 \/ d >= MaxDim - 1}

NoCanvas == [w |-> 0, h |-> 0]

----------------------------------------------------------------------------
(* Date: getDate / getMonth / getFullYear of new Date(file.lastModified)   *)
(* in local time, as ECMAScript defines them (Day, YearFromTime,           *)
(* MonthFromTime, DateFromTime), and getImageCaptureDate on top of them.   *)

Years == 1970..2037

DaysInYear(y) == IF y % 4 # 0 THEN 365
                 ELSE IF y % 100 # 0 THEN 366
                 ELSE IF y % 400 # 0 THEN 365 ELSE 366

DayFromYear(y) == 365 * (y - 1970) + ((y - 1969) \div 4) - ((y - 1901) \div 100)
                  + ((y - 1601) \div 400)

\* Day(LocalTime(t))
LocalDay(t, zone) == (t + zone) \div 86400

YearFromDay(day) == CHOOSE y \in Years : DayFromYear(y) <= day /\ day < DayFromYear(y + 1)

getFullYear(t, zone) == YearFromDay(LocalDay(t, zone))

DayWithinYear(t, zone) == LocalDay(t, zone) - DayFromYear(getFullYear(t, zone))

InLeapYear(t, zone) == IF DaysInYear(getFullYear(t, zone)) = 366 THEN 1 ELSE 0

\* MonthFromTime: 0 = January
getMonth(t, zone) ==
  LET d == DayWithinYear(t, zone)
      l == InLeapYear(t, zone)
  IN  IF d < 31 THEN 0
      ELSE IF d < 59 + l THEN 1
      ELSE IF d < 90 + l THEN 2
      ELSE IF d < 120 + l THEN 3
      ELSE IF d < 151 + l THEN 4
      ELSE IF d < 181 + l THEN 5
      ELSE IF d < 212 + l THEN 6
      ELSE IF d < 243 + l THEN 7
      ELSE IF d < 273 + l THEN 8
      ELSE IF d < 304 + l THEN 9
      ELSE IF d < 334 + l THEN 10
      ELSE 11

\* DateFromTime: day of the month, 1-based
getDate(t, zone) ==
  LET d == DayWithinYear(t, zone)
      l == InLeapYear(t, zone)
      m == getMonth(t, zone)
  IN  CASE m = 0 -> d + 1
        [] m = 1 -> d - 30
        [] m = 2 -> d - 58 - l
        [] m = 3 -> d - 89 - l
        [] m = 4 -> d - 119 - l
        [] m = 5 -> d - 150 - l
        [] m = 6 -> d - 180 - l
        [] m = 7 -> d - 211 - l
        [] m = 8 -> d - 242 - l
        [] m = 9 -> d - 272 - l
        [] m = 10 -> d - 303 - l
        [] m = 11 -> d - 333 - l

getImageCaptureDateMonthIndex(lastModified, zone) ==
  PadStart(ToStr(getDate(lastModified, zone)), 2) \o <<"/">>
    \o PadStart(ToStr(getMonth(lastModified, zone)), 2) \o <<"/">>
    \o ToStr(getFullYear(lastModified, zone))

getImageCaptureDate(lastModified, zone) ==
  PadStart(ToStr(getDate(lastModified, zone)), 2) \o <<"/">>
    \o PadStart(ToStr(getMonth(lastModified, zone) + 1), 2) \o <<"/">>
    \o ToStr(getFullYear(lastModified, zone))

\* The edit form's date rule (part_001 line 533):
\* /^(0[1-9]|[12][0-9]|3[01])\/(0[1-9]|1[012])\/\d{4}$/
DatePattern(s) ==
  /\ Len(s) = 10
  /\ \/ s[1] = "0" /\ s[2] \in Digits \ {"0"}
     \/ s[1] \in {"1", "2"} /\ s[2] \in Digits
     \/ s[1] = "3" /\ s[2] \in {"0", "1"}
  /\ s[3] = "/"
  /\ \/ s[4] = "0" /\ s[5] \in Digits \ {"0"}
     \/ s[4] = "1" /\ s[5] \in {"0", "1", "2"}
  /\ s[6] = "/"
  /\ \A i \in 7..10 : s[i] \in Digits

----------------------------------------------------------------------------
(* The vision model's response text and its parsing (part_001 lines 198-214) *)

FieldNames == {"date", "quantity", "fat", "clr", "fatKg", "snfKg", "baseRate", "rate", "amount"}

\* tokens of a response text: an opening brace, a closing brace, any other
\* text, or a "key": value member
Tok(k, v) == [k |-> k, v |-> v]
LBrace == Tok("{", Absent)
RBrace == Tok("}", Absent)
Prose == Tok("txt", Absent)

\* responseText.match(/\{[\s\S]*\}/): from the first "{" to the last "}"
HasJsonMatch(text) ==
  \E i, j \in 1..Len(text) : i < j /\ text[i] = LBrace /\ text[j] = RBrace

JsonMatch(text) ==
  LET i == CHOOSE a \in 1..Len(text) :
             text[a] = LBrace /\ \A b \in 1..(a - 1) : text[b] # LBrace
      j == CHOOSE a \in (i + 1)..Len(text) :
             text[a] = RBrace /\ \A b \in (a + 1)..Len(text) : text[b] # RBrace
  IN  SubSeq(text, i, j)

\* JSON.parse succeeds on a span that is "{", members, "}"
JsonParses(span) ==
  /\ Len(span) >= 2
  /\ span[1] = LBrace
  /\ span[Len(span)] = RBrace
  /\ \A i \in 2..(Len(span) - 1) : span[i].k \in FieldNames

\* the value JSON.parse gives a key: the last member with that key
JsonGet(span, key) ==
  LET at == {i \in 2..(Len(span) - 1) : span[i].k = key}
  IN  IF at = {} THEN Absent
      ELSE span[CHOOSE i \in at : \A j \in at : j <= i].v

\* does the response yield an object (lines 203-205 do not throw)
ParsesPartial(text) == HasJsonMatch(text)

Parses(text) == HasJsonMatch(text) /\ JsonParses(JsonMatch(text))

NoData == [rawText |-> <<>>, manual |-> FALSE, null |-> TRUE,
           date |-> Absent, quantity |-> Absent, fat |-> Absent, clr |-> Absent,
           fatKg |-> Absent, snfKg |-> Absent, baseRate |-> Absent, rate |-> Absent,
           amount |-> Absent]

\* { rawText, date: extractedData.date || captureDate, ...extractedData }
ExtractedRecord(text, captureDate) ==
  LET ex == JsonMatch(text)
      first == IF Truthy(JsonGet(ex, "date")) THEN JsonGet(ex, "date") ELSE Txt(captureDate)
  IN  [rawText |-> text, manual |-> FALSE, null |-> FALSE,
       date |-> IF JsonGet(ex, "date").t # "absent" THEN JsonGet(ex, "date") ELSE first,
       quantity |-> JsonGet(ex, "quantity"), fat |-> JsonGet(ex, "fat"),
       clr |-> JsonGet(ex, "clr"), fatKg |-> JsonGet(ex, "fatKg"),
       snfKg |-> JsonGet(ex, "snfKg"), baseRate |-> JsonGet(ex, "baseRate"),
       rate |-> JsonGet(ex, "rate"), amount |-> JsonGet(ex, "amount")]

----------------------------------------------------------------------------
(* Inputs of the session: files, responses, form submissions *)

File(name, lastModified, w, h, decodes) ==
  [name |-> name, lastModified |-> lastModified, w |-> w, h |-> h, decodes |-> decodes]

NoFile == File("", 0, 0, 0, FALSE)

\* a photo taken 2024-02-29 20:00 UTC (1 March in a zone east of +04:00) and
\* a file the browser cannot decode as an image
Files == { File("photo", 1709236800, 4032, 3024, TRUE),
           File("broken", 1704063600, 0, 0, FALSE) }

NoBlob == [src |-> "", w |-> 0, h |-> 0]

RespFull == << LBrace,
               Tok("date", Txt(<<"0","5","/","0","1","/","2","0","2","4">>)),
               Tok("quantity", Num(12500, 1)), Tok("fat", Num(4000, 1)),
               Tok("clr", Num(28000, 1)), Tok("baseRate", Num(70500, 2)),
               Tok("rate", Num(35500, 1)), Tok("amount", Num(443750, 2)),
               RBrace >>

\* fenced by prose, no date, no CLR, SNF and fat shown, quantity misread
RespPartial == << Prose, LBrace,
                  Tok("quantity", Num(9999000, 0)), Tok("fat", Num(4000, 1)),
                  Tok("snfKg", Num(3200, 1)), Tok("rate", Num(35500, 1)),
                  Tok("amount", Num(443750, 2)),
                  RBrace, Prose >>

RespNoSpan == << Prose, Tok("quantity", Num(12500, 1)), Prose >>

RespBadJson == << LBrace, Tok("quantity", Num(12500, 1)), Prose, RBrace >>

Responses == {RespFull, RespPartial, RespNoSpan, RespBadJson}

\* what the manual form submits: the date input's value is YYYY-MM-DD
ManualForm(date, quantity, fat, snfKg, rate, amount) ==
  [date |-> date, quantity |-> quantity, fat |-> fat, snfKg |-> snfKg,
   rate |-> rate, amount |-> amount]

\* a complete form (SNF 8.5, fat 4.0) and one whose amount was left empty
ManualForms ==
  { ManualForm(Txt(<<"2","0","2","4","-","0","1","-","2","0">>), Num(10000, 1),
               Num(4000, 1), Num(8500, 1), Num(40000, 1), Num(400000, 0)),
    ManualForm(Txt(<<"2","0","2","4","-","0","2","-","0","1">>), Num(10000, 1),
               Num(4000, 1), Num(8500, 1), Num(40000, 1), EmptyStr) }

\* what the user types into one field of the edit form before pressing Save
\* ("none": the form is submitted as it stands)
EditChoices == { [field |-> "none", v |-> EmptyStr],
                 [field |-> "quantity", v |-> Num(600000, 0)],
                 [field |-> "clr", v |-> Num(28000, 1)] }

----------------------------------------------------------------------------
(* The edit form's rules (part_001 lines 524-711), in thousandths *)

NumericFields == FieldNames \ {"date"}

RuleMin(f) == CASE f = "quantity" -> 100 [] f = "fat" -> 2000 [] f = "clr" -> 15000
                [] f = "fatKg" -> 10 [] f = "snfKg" -> 10 [] f = "baseRate" -> 100
                [] f = "rate" -> 1000 [] f = "amount" -> 1000

RuleMax(f) == CASE f = "quantity" -> 500000 [] f = "fat" -> 11000 [] f = "clr" -> 40000
                [] f = "fatKg" -> 50000 [] f = "snfKg" -> 50000 [] f = "baseRate" -> 100000
                [] f = "rate" -> 200000 [] f = "amount" -> 100000000

\* the inputs' step attributes; the step base is the min attribute
RuleStep(f) == CASE f = "quantity" -> 100 [] f = "fat" -> 100 [] f = "clr" -> 100
                 [] f = "fatKg" -> 10 [] f = "snfKg" -> 10 [] f = "baseRate" -> 10
                 [] f = "rate" -> 100 [] f = "amount" -> 1000

\* react-hook-form's min/max rule: an empty value is not checked
InRange(f, v) == v.t = "num" => (v.n >= RuleMin(f) /\ v.n <= RuleMax(f))

\* the browser's own check of a number input on submit: min, max and step
NativeOk(f, v) == v.t = "num" =>
  /\ v.n >= RuleMin(f)
  /\ v.n <= RuleMax(f)
  /\ (v.n - RuleMin(f)) % RuleStep(f) = 0

DateRuleOk(v) == (v.t = "text" /\ v.s # <<>>) => DatePattern(v.s)

\* the value a form input holds for a field of parsedData after reset(parsedData):
\* a number input shows a numeric string and is empty otherwise; the date
\* input is a text input
FormValue(f, v) == IF f = "date"
                   THEN (IF v.t \in {"text", "num"} THEN v ELSE EmptyStr)
                   ELSE (IF v.t = "num" THEN v ELSE EmptyStr)

\* the data the edit form submits: the form values, one of them retyped
EditData(pd, choice) ==
  [f \in FieldNames |-> IF f = choice.field THEN choice.v ELSE FormValue(f, pd[f])]

EditAccepted(data) ==
  /\ DateRuleOk(data["date"])
  /\ \A f \in NumericFields : InRange(f, data[f]) /\ NativeOk(f, data[f])

\* a merge that keeps the old value of a field the form left empty
MergeEditKeepsOldWhenEmpty(pd, data) ==
  [rawText |-> pd.rawText, manual |-> pd.manual, null |-> FALSE,
   date |-> IF data["date"] = EmptyStr THEN pd.date ELSE data["date"],
   quantity |-> IF data["quantity"] = EmptyStr THEN pd.quantity ELSE data["quantity"],
   fat |-> IF data["fat"] = EmptyStr THEN pd.fat ELSE data["fat"],
   clr |-> IF data["clr"] = EmptyStr THEN pd.clr ELSE data["clr"],
   fatKg |-> IF data["fatKg"] = EmptyStr THEN pd.fatKg ELSE data["fatKg"],
   snfKg |-> IF data["snfKg"] = EmptyStr THEN pd.snfKg ELSE data["snfKg"],
   baseRate |-> IF data["baseRate"] = EmptyStr THEN pd.baseRate ELSE data["baseRate"],
   rate |-> IF data["rate"] = EmptyStr THEN pd.rate ELSE data["rate"],
   amount |-> IF data["amount"] = EmptyStr THEN pd.amount ELSE data["amount"]]

\* setParsedData({ ...parsedData!, ...data })
MergeEdit(pd, data) ==
  [rawText |-> pd.rawText, manual |-> pd.manual, null |-> FALSE,
   date |-> data["date"], quantity |-> data["quantity"], fat |-> data["fat"],
   clr |-> data["clr"], fatKg |-> data["fatKg"], snfKg |-> data["snfKg"],
   baseRate |-> data["baseRate"], rate |-> data["rate"], amount |-> data["amount"]]

----------------------------------------------------------------------------
(* The manual entry form's submit handler (part_001 lines 402-425) *)

\* s.split('-')
RECURSIVE SplitDash(_)
SplitDash(s) ==
  IF \A i \in 1..Len(s) : s[i] # "-" THEN <<s>>
  ELSE LET i == CHOOSE a \in 1..Len(s) : s[a] = "-" /\ \A b \in 1..(a - 1) : s[b] # "-"
       IN  <<SubSeq(s, 1, i - 1)>> \o SplitDash(SubSeq(s, i + 1, Len(s)))

\* YYYY-MM-DD to DD/MM/YYYY (lines 409-413)
FormatManualDate(v) ==
  IF v.t = "text" /\ (\E i \in 1..Len(v.s) : v.s[i] = "-") /\ Len(SplitDash(v.s)) >= 3
  THEN LET parts == SplitDash(v.s)
       IN  Txt(parts[3] \o <<"/">> \o parts[2] \o <<"/">> \o parts[1])
  ELSE v

\* parseFloat(v || '0'), in thousandths
ParseOrZero(v) == IF v.t = "num" THEN v.n ELSE 0

\* (x).toFixed(2) for x given in units of 10^-5: the nearest hundredth; a
\* decimal tie is not exactly representable in binary floating point and
\* may fall to either side
ToFixed2(x5) ==
  LET q == x5 \div 1000
      r == x5 % 1000
  IN  IF r < 500 THEN {Num(q * 10, 2)}
      ELSE IF r > 500 THEN {Num((q + 1) * 10, 2)}
      ELSE {Num(q * 10, 2), Num((q + 1) * 10, 2)}

\* (parseFloat(snfValue) + 0.25 * parseFloat(fatValue)).toFixed(2)
ManualClr(form) == ToFixed2(ParseOrZero(form.snfKg) * 100 + 25 * ParseOrZero(form.fat))

\* register(..., { required: true }) on each of the six inputs
ManualFormComplete(form) ==
  /\ Truthy(form.date) /\ Truthy(form.quantity) /\ Truthy(form.fat)
  /\ Truthy(form.snfKg) /\ Truthy(form.rate) /\ Truthy(form.amount)

ManualRecord(form, clr) ==
  [rawText |-> <<>>, manual |-> TRUE, null |-> FALSE,
   date |-> FormatManualDate(form.date), quantity |-> form.quantity, fat |-> form.fat,
   clr |-> clr, fatKg |-> Absent, snfKg |-> form.snfKg, baseRate |-> Absent,
   rate |-> form.rate, amount |-> form.amount]

----------------------------------------------------------------------------
(* The backend: row-level-security policies (SUPABASE_SCHEMA.sql lines     *)
(* 64-106, SUPABASE_STORAGE_POLICIES.sql)                                  *)

Users == {"u1", "u2"}
Callers == Users \cup {"anon"}      \* "anon": a request without a session
Roles == {"admin", "member", "viewer"}

\* SELECT role FROM profiles WHERE profiles.id = auth.uid()
RoleOf(uid) == IF uid \in Users THEN profiles[uid] ELSE "none"

ReceiptSelectPolicy(caller) == caller \in Users

ReceiptInsertPolicy(caller) == caller \in Users /\ RoleOf(caller) \in {"admin", "member"}

ReceiptUpdatePolicyMember(caller) == caller \in Users /\ RoleOf(caller) \in {"admin", "member"}

ReceiptUpdatePolicy(caller) == caller \in Users /\ RoleOf(caller) = "admin"

ReceiptDeletePolicy(caller) == caller \in Users /\ RoleOf(caller) = "admin"

StorageInsertPolicy(caller) == caller \in Users /\ RoleOf(caller) \in {"admin", "member"}

StorageUpdatePolicy(caller) == caller \in Users /\ RoleOf(caller) = "admin"

StorageDeletePolicy(caller) == caller \in Users /\ RoleOf(caller) = "admin"

NoPath == [uid |-> "", t |-> 0]

\* `${userId}/${Date.now()}.jpg`
FileName(userId, now) == [uid |-> userId, t |-> now]

\* supabase.storage.from("receipts").getPublicUrl(fileName) as text: the
\* project's origin, the bucket's public prefix, then the file name
\* `${userId}/${Date.now()}.jpg`. The origin and the user id (a UUID) are
\* single tokens.
StoragePrefix ==
  << "/", "s", "t", "o", "r", "a", "g", "e", "/", "v", "1", "/", "o", "b", "j", "e", "c", "t",
     "/", "p", "u", "b", "l", "i", "c", "/", "r", "e", "c", "e", "i", "p", "t", "s", "/" >>
getPublicUrl(path) ==
  << "origin" >> \o StoragePrefix \o << path.uid, "/" >> \o ToStr(path.t)
    \o << ".", "j", "p", "g" >>

\* String.prototype.includes
Includes(s, w) == \E i \in 1..(Len(s) - Len(w) + 1) : SubSeq(s, i, i + Len(w) - 1) = w

\* the Records view's entry type (aiRecordService.ts lines 202-204)
isManualEntry(image_url) ==
  \/ Includes(image_url, << "M", "a", "n", "u", "a", "l" >>)
  \/ Includes(image_url, << "m", "a", "n", "u", "a", "l" >>)

\* id uuid DEFAULT gen_random_uuid(): an id no row of the table carries
NewId(rows) == CHOOSE n \in 1..(Len(rows) + 1) : \A i \in 1..Len(rows) : rows[i].id # n

\* the row saveReceipt inserts (SUPABASE_SCHEMA.sql lines 193-211)
ReceiptRow(id, userId, data, publicUrl) ==
  [id |-> id, user_id |-> userId, date |-> data.date, quantity |-> data.quantity,
   fat |-> data.fat, clr |-> data.clr, fat_kg |-> data.fat_kg, snf_kg |-> data.snf_kg,
   base_rate |-> data.base_rate, rate |-> data.rate, amount |-> data.amount,
   image_url |-> publicUrl]

\* receiptData as handleSaveReceipt builds it (part_001 lines 274-285, 303-314)
ReceiptData(pd) ==
  [date |-> OrEmpty(pd.date), quantity |-> OrEmpty(pd.quantity), fat |-> OrEmpty(pd.fat),
   clr |-> OrEmpty(pd.clr), fat_kg |-> pd.fatKg, snf_kg |-> pd.snfKg,
   base_rate |-> OrEmpty(pd.baseRate), rate |-> OrEmpty(pd.rate),
   amount |-> OrEmpty(pd.amount)]

\* the NOT NULL columns of receipts (SUPABASE_SCHEMA.sql lines 43-59)
NotNullOk(row) ==
  \A v \in {row.date, row.quantity, row.fat, row.clr, row.base_rate, row.rate, row.amount} :
     v.t \notin {"absent", "null"}

----------------------------------------------------------------------------
(* The session: the App component's handlers (part_001) *)

Upload(stage, file) == [stage |-> stage, file |-> file]
NoSave == [stage |-> "idle", manual |-> FALSE, uid |-> "", data |-> NoData,
           blob |-> NoBlob, path |-> NoPath]
NoReq == [op |-> "none", caller |-> "", ok |-> FALSE, n |-> 0]

\* the Records and AIRecords views are not mounted, every user has an account
ExtraIdle ==
  /\ globalFilter = <<>>
  /\ groups = <<>>
  /\ aiRecords = <<>>
  /\ aiView = <<>>
  /\ accounts = Users

\* what the render shows (part_001 lines 365, 382, 502, 715-734)
UploadSectionShown == user # "none" /\ selectedImage = NoBlob /\ parsedData.null
ReviewShown == user # "none" /\ ~parsedData.null /\ ~isProcessing
SaveButtonEnabledWhileSaving == ReviewShown /\ ~isEditing
SaveButtonEnabled == ReviewShown /\ ~isSaving /\ ~isEditing
ResetButtonEnabled ==
  \/ ReviewShown /\ ~isSaving
  \/ user # "none" /\ parsedData.null /\ selectedImage # NoBlob /\ ~isProcessing

\* compressImage(file): the blob, NoBlob when the promise rejects (the image
\* does not decode, or toBlob yields null for a canvas without pixels)
Compressed(file) ==
  LET c == CompressDims(file.w, file.h)
  IN  IF file.decodes /\ c.w > 0 /\ c.h > 0 THEN [src |-> file.name, w |-> c.w, h |-> c.h]
      ELSE NoBlob

SetEntryMode(m) ==
  /\ UploadSectionShown
  /\ entryMode' = m
  /\ UNCHANGED <<user, apiKey, tz, selectedImage, compressedBlob, parsedData, isProcessing,
                 isEditing, isSaving, uploads, saving, lastAlert, storeVars, imageVars, extraVars>>

\* handleImageUpload up to its first await (lines 130-146)
HandleImageUploadUnguarded(file) ==
  /\ UploadSectionShown /\ entryMode = "camera"
  /\ BagCardinality(uploads) < MaxUploads
  /\ uploads' = uploads (+) SetToBag({Upload("compress", file)})
  /\ isProcessing' = TRUE
  /\ parsedData' = NoData
  /\ UNCHANGED <<user, apiKey, tz, entryMode, selectedImage, compressedBlob, isEditing,
                 isSaving, saving, lastAlert, storeVars, imageVars, extraVars>>

HandleImageUpload(file) ==
  /\ UploadSectionShown /\ entryMode = "camera"
  /\ IF apiKey = ""
     THEN /\ lastAlert' = "config"
          /\ UNCHANGED <<uploads, isProcessing, parsedData>>
     ELSE /\ BagCardinality(uploads) < MaxUploads
          /\ uploads' = uploads (+) SetToBag({Upload("compress", file)})
          /\ isProcessing' = TRUE
          /\ parsedData' = NoData
          /\ UNCHANGED lastAlert
  /\ UNCHANGED <<user, apiKey, tz, entryMode, selectedImage, compressedBlob, isEditing,
                 isSaving, saving, storeVars, imageVars, extraVars>>

\* the invocation resumes after `await compressImage(file)` (lines 146-158),
\* or lands in catch/finally when the promise rejected (lines 218-223)
CompressDone(u) ==
  /\ BagIn(u, uploads) /\ u.stage = "compress"
  /\ LET blob == Compressed(u.file)
     IN  IF blob # NoBlob
         THEN /\ compressedBlob' = blob
              /\ selectedImage' = blob
              /\ uploads' = (uploads (-) SetToBag({u})) (+) SetToBag({Upload("extract", u.file)})
              /\ UNCHANGED <<isProcessing, lastAlert>>
         ELSE /\ lastAlert' = "processFailed"
              /\ isProcessing' = FALSE
              /\ uploads' = uploads (-) SetToBag({u})
              /\ UNCHANGED <<compressedBlob, selectedImage>>
  /\ UNCHANGED <<user, apiKey, tz, entryMode, parsedData, isEditing, isSaving, saving,
                 storeVars, imageVars, extraVars>>

\* the invocation resumes after `await model.generateContent(...)` with the
\* response text (lines 198-217, 221-223)
ExtractDone(u, text) ==
  /\ BagIn(u, uploads) /\ u.stage = "extract"
  /\ IF Parses(text)
     THEN /\ parsedData' = ExtractedRecord(text, getImageCaptureDate(u.file.lastModified, tz))
          /\ UNCHANGED lastAlert
     ELSE /\ lastAlert' = "processFailed"
          /\ UNCHANGED parsedData
  /\ isProcessing' = FALSE
  /\ uploads' = uploads (-) SetToBag({u})
  /\ UNCHANGED <<user, apiKey, tz, entryMode, selectedImage, compressedBlob, isEditing,
                 isSaving, saving, storeVars, imageVars, extraVars>>

\* a catch without the finally that clears isProcessing
ExtractFailedNoFinally(u) ==
  /\ BagIn(u, uploads) /\ u.stage = "extract"
  /\ lastAlert' = "processFailed"
  /\ uploads' = uploads (-) SetToBag({u})
  /\ UNCHANGED <<user, apiKey, tz, entryMode, selectedImage, compressedBlob, parsedData,
                 isProcessing, isEditing, isSaving, saving, storeVars, imageVars, extraVars>>

\* generateContent (or the base64 conversion before it) rejects: network or
\* credential failure (lines 218-223)
ExtractFailed(u) ==
  /\ BagIn(u, uploads) /\ u.stage = "extract"
  /\ lastAlert' = "processFailed"
  /\ isProcessing' = FALSE
  /\ uploads' = uploads (-) SetToBag({u})
  /\ UNCHANGED <<user, apiKey, tz, entryMode, selectedImage, compressedBlob, parsedData,
                 isEditing, isSaving, saving, storeVars, imageVars, extraVars>>

\* the manual form's Continue (lines 402-425); an incomplete form is not submitted
ManualContinue(form) ==
  /\ UploadSectionShown /\ entryMode = "manual"
  /\ IF ManualFormComplete(form)
     THEN \E clr \in ManualClr(form) : parsedData' = ManualRecord(form, clr)
     ELSE UNCHANGED parsedData
  /\ UNCHANGED <<user, apiKey, tz, entryMode, selectedImage, compressedBlob, isProcessing,
                 isEditing, isSaving, uploads, saving, lastAlert, storeVars, imageVars, extraVars>>

\* the Edit button (line 510)
EditStart ==
  /\ ReviewShown /\ ~isEditing
  /\ isEditing' = TRUE
  /\ UNCHANGED <<user, apiKey, tz, entryMode, selectedImage, compressedBlob, parsedData,
                 isProcessing, isSaving, uploads, saving, lastAlert, storeVars, imageVars, extraVars>>

\* the edit form's Save: handleSubmit(onSubmit) (lines 240-243, 503)
EditSubmit(choice) ==
  /\ ReviewShown /\ isEditing
  /\ LET data == EditData(parsedData, choice)
     IN  IF EditAccepted(data)
         THEN /\ parsedData' = MergeEdit(parsedData, data)
              /\ isEditing' = FALSE
         ELSE UNCHANGED <<parsedData, isEditing>>
  /\ UNCHANGED <<user, apiKey, tz, entryMode, selectedImage, compressedBlob, isProcessing,
                 isSaving, uploads, saving, lastAlert, storeVars, imageVars, extraVars>>

\* handleReset from one of the two reset buttons (lines 226-234)
HandleReset ==
  /\ ResetButtonEnabled
  /\ selectedImage' = NoBlob
  /\ compressedBlob' = NoBlob
  /\ parsedData' = NoData
  /\ isEditing' = FALSE
  /\ UNCHANGED <<user, apiKey, tz, entryMode, isProcessing, isSaving, uploads, saving,
                 lastAlert, storeVars, imageVars, extraVars>>

\* handleSaveReceipt up to its first await (lines 245-287, 299-316). In the
\* manual branch the first await is canvas.toBlob, in the camera branch the
\* storage upload inside saveReceipt. Without a blob in camera mode it returns.
HandleSaveReceipt ==
  /\ SaveButtonEnabled
  /\ clock < MaxObjects
  /\ IF entryMode = "manual" /\ compressedBlob = NoBlob
     THEN /\ isSaving' = TRUE
          /\ saving' = [stage |-> "toBlob", manual |-> TRUE, uid |-> user,
                        data |-> parsedData, blob |-> NoBlob, path |-> NoPath]
          /\ UNCHANGED clock
     ELSE IF compressedBlob = NoBlob
     THEN UNCHANGED <<isSaving, saving, clock>>
     ELSE /\ isSaving' = TRUE
          /\ saving' = [stage |-> "upload", manual |-> FALSE, uid |-> user,
                        data |-> parsedData, blob |-> compressedBlob,
                        path |-> FileName(user, clock + 1)]
          /\ UNCHANGED clock
  /\ UNCHANGED <<user, apiKey, tz, entryMode, selectedImage, compressedBlob, parsedData,
                 isProcessing, isEditing, uploads, lastAlert, profiles, receipts, objects,
                 recordsView, lastReq, imageVars, extraVars>>

\* the manual branch resumes after canvas.toBlob and calls saveReceipt
\* (lines 270-287), which names the file and starts the upload
ManualBlobDone ==
  /\ saving.stage = "toBlob"
  /\ saving' = [saving EXCEPT !.stage = "upload",
                              !.blob = [src |-> "manual", w |-> 400, h |-> 300],
                              !.path = FileName(saving.uid, clock + 1)]
  /\ UNCHANGED <<sessionVarsButSaving, storeVars, imageVars, extraVars>>

\* saveReceipt resumes after the storage upload (SUPABASE_SCHEMA.sql lines
\* 173-190): the bucket's INSERT policy decides, an existing path is refused,
\* and the request may fail on the network. On an error saveReceipt throws and
\* handleSaveReceipt's catch/finally run (part_001 lines 290-295, 319-324).
SaveUploadDone(netOk) ==
  /\ saving.stage = "upload"
  /\ LET ok == netOk /\ StorageInsertPolicy(saving.uid) /\ saving.path \notin objects
     IN  IF ok
         THEN /\ objects' = objects \cup {saving.path}
              /\ clock' = clock + 1
              /\ saving' = [saving EXCEPT !.stage = "insert"]
              /\ UNCHANGED <<isSaving, lastAlert>>
         ELSE /\ lastAlert' = "saveFailed"
              /\ isSaving' = FALSE
              /\ saving' = NoSave
              /\ UNCHANGED <<objects, clock>>
  /\ UNCHANGED <<user, apiKey, tz, entryMode, selectedImage, compressedBlob, parsedData,
                 isProcessing, isEditing, uploads, profiles, receipts, recordsView,
                 lastReq, imageVars, extraVars>>

SaveInsertDoneResetAlways(netOk) ==
  /\ saving.stage = "insert"
  /\ LET row == ReceiptRow(NewId(receipts), saving.uid, ReceiptData(saving.data), saving.path)
         ok == netOk /\ ReceiptInsertPolicy(saving.uid) /\ NotNullOk(row)
     IN  IF ok
         THEN /\ receipts' = Append(receipts, row)
              /\ lastAlert' = "saved"
         ELSE /\ lastAlert' = "saveFailed"
              /\ UNCHANGED receipts
  /\ selectedImage' = NoBlob
  /\ compressedBlob' = NoBlob
  /\ parsedData' = NoData
  /\ isEditing' = FALSE
  /\ isSaving' = FALSE
  /\ saving' = NoSave
  /\ UNCHANGED <<user, apiKey, tz, entryMode, isProcessing, uploads, profiles, objects,
                 clock, recordsView, lastReq, imageVars, extraVars>>

\* saveReceipt resumes after the insert (SUPABASE_SCHEMA.sql lines 193-215):
\* the receipts INSERT policy and the NOT NULL columns decide. On success
\* handleSaveReceipt alerts, calls handleReset and clears isSaving
\* (part_001 lines 288-289, 294, 317-318, 323).
SaveInsertDone(netOk) ==
  /\ saving.stage = "insert"
  /\ LET row == ReceiptRow(NewId(receipts), saving.uid, ReceiptData(saving.data), saving.path)
         ok == netOk /\ ReceiptInsertPolicy(saving.uid) /\ NotNullOk(row)
     IN  IF ok
         THEN /\ receipts' = Append(receipts, row)
              /\ lastAlert' = "saved"
              /\ selectedImage' = NoBlob
              /\ compressedBlob' = NoBlob
              /\ parsedData' = NoData
              /\ isEditing' = FALSE
         ELSE /\ lastAlert' = "saveFailed"
              /\ UNCHANGED <<receipts, selectedImage, compressedBlob, parsedData,
                             isEditing>>
  /\ isSaving' = FALSE
  /\ saving' = NoSave
  /\ UNCHANGED <<user, apiKey, tz, entryMode, isProcessing, uploads, profiles, objects,
                 clock, recordsView, lastReq, imageVars, extraVars>>

----------------------------------------------------------------------------
(* Spec: one browser session of one user against the backend *)

\* the deployments the session is checked in: with and without the API key,
\* in UTC and in India (+05:30), the user's profile holding one of the roles
SessionConfigs ==
  { [apiKey |-> "key", tz |-> 0, role |-> "member"],
    [apiKey |-> "key", tz |-> 19800, role |-> "viewer"],
    [apiKey |-> "", tz |-> 19800, role |-> "admin"] }

Init ==
  /\ ExtraIdle
  /\ user = "u1"
  /\ \E c \in SessionConfigs :
       /\ apiKey = c.apiKey
       /\ tz = c.tz
       /\ profiles = [u \in Users |-> IF u = "u1" THEN c.role ELSE "member"]
  /\ entryMode = "camera"
  /\ selectedImage = NoBlob
  /\ compressedBlob = NoBlob
  /\ parsedData = NoData
  /\ isProcessing = FALSE
  /\ isEditing = FALSE
  /\ isSaving = FALSE
  /\ uploads = EmptyBag
  /\ saving = NoSave
  /\ lastAlert = "none"
  /\ receipts = <<>>
  /\ objects = {}
  /\ clock = 0
  /\ recordsView = <<>>
  /\ lastReq = NoReq
  /\ img = NoCanvas
  /\ canvas = NoCanvas

Next ==
  \/ \E m \in {"camera", "manual"} : SetEntryMode(m)
  \/ \E file \in Files : HandleImageUpload(file)
  \/ \E u \in BagToSet(uploads) : CompressDone(u)
  \/ \E u \in BagToSet(uploads), text \in Responses : ExtractDone(u, text)
  \/ \E u \in BagToSet(uploads) : ExtractFailed(u)
  \/ \E form \in ManualForms : ManualContinue(form)
  \/ EditStart
  \/ \E choice \in EditChoices : EditSubmit(choice)
  \/ HandleReset
  \/ HandleSaveReceipt
  \/ ManualBlobDone
  \/ \E netOk \in BOOLEAN : SaveUploadDone(netOk)
  \/ \E netOk \in BOOLEAN : SaveInsertDone(netOk)

Spec == Init /\ [][Next]_vars

----------------------------------------------------------------------------
(* SpecLive: the session with every pending call returning *)

\* one response that parses and one that does not
LiveResponses == {RespFull, RespNoSpan}

\* the pending calls of an upload and of a save return: the promises of
\* compressImage, generateContent, canvas.toBlob and saveReceipt settle
UploadReturns ==
  \E u \in BagToSet(uploads) :
    \/ CompressDone(u)
    \/ \E text \in LiveResponses : ExtractDone(u, text)
    \/ ExtractFailed(u)

SaveReturns ==
  \/ ManualBlobDone
  \/ \E netOk \in BOOLEAN : SaveUploadDone(netOk)
  \/ \E netOk \in BOOLEAN : SaveInsertDone(netOk)

\* the session of a member with the API key, every pending call returning
InitLive == Init /\ apiKey = "key" /\ tz = 0

NextLive ==
  \/ \E m \in {"camera", "manual"} : SetEntryMode(m)
  \/ \E file \in Files : HandleImageUpload(file)
  \/ UploadReturns
  \/ \E form \in ManualForms : ManualContinue(form)
  \/ EditStart
  \/ \E choice \in EditChoices : EditSubmit(choice)
  \/ HandleReset
  \/ HandleSaveReceipt
  \/ SaveReturns

SpecLive == InitLive /\ [][NextLive]_vars /\ WF_vars(UploadReturns) /\ WF_vars(SaveReturns)

----------------------------------------------------------------------------
(* SpecCapture: one capture at a time, over many capture times and zones *)

\* days since 1970-01-01 around month ends, leap days and year ends
CaptureDays == {1, 58, 59, 364, 365, 789, 790, 10956, 10957, 11015, 11016, 11017,
                19722, 19723, 19782, 19783, 20088}

\* seconds into the day: midnight, around 18:30 (midnight at +05:30), around
\* 05:00 (midnight at -05:00 is 05:00 UTC), the last second
CaptureSeconds == {0, 17999, 18000, 66599, 66600, 86399}

CaptureFiles == { File("photo", d * 86400 + sec, 4032, 3024, TRUE) :
                    d \in CaptureDays, sec \in CaptureSeconds }

CaptureZones == {0, 19800, -18000}

\* responses whose object has a date member without a date: null, and ""
RespNullDate == << LBrace, Tok("date", Null), Tok("quantity", Num(12500, 1)),
                   Tok("amount", Num(443750, 2)), RBrace >>
RespEmptyDate == << LBrace, Tok("date", EmptyStr), Tok("quantity", Num(12500, 1)),
                    Tok("amount", Num(443750, 2)), RBrace >>

CaptureResponses == Responses \cup {RespNullDate, RespEmptyDate}

InitCapture ==
  /\ ExtraIdle
  /\ user = "u1"
  /\ apiKey = "key"
  /\ tz \in CaptureZones
  /\ profiles = [u \in Users |-> "member"]
  /\ entryMode = "camera"
  /\ selectedImage = NoBlob
  /\ compressedBlob = NoBlob
  /\ parsedData = NoData
  /\ isProcessing = FALSE
  /\ isEditing = FALSE
  /\ isSaving = FALSE
  /\ uploads = EmptyBag
  /\ saving = NoSave
  /\ lastAlert = "none"
  /\ receipts = <<>>
  /\ objects = {}
  /\ clock = 0
  /\ recordsView = <<>>
  /\ lastReq = NoReq
  /\ img = NoCanvas
  /\ canvas = NoCanvas

NextCapture ==
  \/ \E file \in CaptureFiles : uploads = EmptyBag /\ HandleImageUpload(file)
  \/ \E u \in BagToSet(uploads) : CompressDone(u)
  \/ \E u \in BagToSet(uploads), text \in CaptureResponses : ExtractDone(u, text)
  \/ \E u \in BagToSet(uploads) : ExtractFailed(u)
  \/ HandleReset

SpecCapture == InitCapture /\ [][NextCapture]_vars

----------------------------------------------------------------------------
(* SpecCompress: compressImage on images of many sizes *)

\* img.onload of compressImage (part_001 lines 78-96)
CompressImage ==
  /\ canvas = NoCanvas
  /\ canvas' = CompressDims(img.w, img.h)
  /\ UNCHANGED <<sessionVars, storeVars, img, extraVars>>

InitCompress ==
  /\ ExtraIdle
  /\ img \in [w : ImageSides, h : ImageSides]
  /\ canvas = NoCanvas
  /\ user = "u1"
  /\ apiKey = "key"
  /\ tz = 0
  /\ profiles = [u \in Users |-> "member"]
  /\ entryMode = "camera"
  /\ selectedImage = NoBlob
  /\ compressedBlob = NoBlob
  /\ parsedData = NoData
  /\ isProcessing = FALSE
  /\ isEditing = FALSE
  /\ isSaving = FALSE
  /\ uploads = EmptyBag
  /\ saving = NoSave
  /\ lastAlert = "none"
  /\ receipts = <<>>
  /\ objects = {}
  /\ clock = 0
  /\ recordsView = <<>>
  /\ lastReq = NoReq

NextCompress == CompressImage

SpecCompress == InitCompress /\ [][NextCompress]_vars

----------------------------------------------------------------------------
(* SpecStore: requests of every caller against the receipts table under    *)
(* its row-level-security policies, while an administrator changes roles   *)

\* no capture, review or save is going on in the application
SessionIdle ==
  /\ apiKey = "key"
  /\ tz = 0
  /\ entryMode = "camera"
  /\ selectedImage = NoBlob
  /\ compressedBlob = NoBlob
  /\ parsedData = NoData
  /\ isProcessing = FALSE
  /\ isEditing = FALSE
  /\ isSaving = FALSE
  /\ uploads = EmptyBag
  /\ saving = NoSave
  /\ lastAlert = "none"
  /\ img = NoCanvas
  /\ canvas = NoCanvas

\* the receipt a client sends, and the same receipt with its amount changed
SentData == ReceiptData(ExtractedRecord(RespFull, getImageCaptureDate(0, 0)))
ChangedData == [SentData EXCEPT !.amount = Num(450000, 0)]

Request(op, caller, ok, n) == [op |-> op, caller |-> caller, ok |-> ok, n |-> n]

\* positions of the rows with the given id
RowsWithId(id) == {i \in 1..Len(receipts) : receipts[i].id = id}

\* the table without the rows at the given positions
RECURSIVE WithoutRows(_, _)
WithoutRows(rows, at) ==
  IF rows = <<>> THEN <<>>
  ELSE LET rest == WithoutRows(SubSeq(rows, 1, Len(rows) - 1), at)
       IN  IF Len(rows) \in at THEN rest ELSE Append(rest, rows[Len(rows)])

\* UPDATE profiles SET role = ... in the SQL editor (SUPABASE_SETUP.md lines 98-109)
AdminSetRole(uid, role) ==
  /\ profiles[uid] # role
  /\ profiles' = [profiles EXCEPT ![uid] = role]
  /\ lastReq' = NoReq
  /\ UNCHANGED <<sessionVars, imageVars, extraVars, receipts, objects, clock, recordsView>>

\* supabase.from("receipts").insert([{ user_id: userId, ... }]) sent by a
\* caller, under "Admin and Members can insert receipts": the policy looks at
\* the caller's role only, user_id is whatever the request names
ReceiptInsertAs(caller, userId) ==
  /\ Len(receipts) < MaxRows
  /\ LET path == FileName(userId, clock + 1)
         row == ReceiptRow(NewId(receipts), userId, SentData, path)
         ok == ReceiptInsertPolicy(caller) /\ NotNullOk(row)
     IN  /\ receipts' = IF ok THEN Append(receipts, row) ELSE receipts
         /\ lastReq' = Request("insert", caller, ok, IF ok THEN 1 ELSE 0)
  /\ UNCHANGED <<sessionVars, imageVars, extraVars, profiles, objects, clock, recordsView>>

\* the insert as the application sends it: saveReceipt(user.id, ...)
ReceiptInsert(caller) == ReceiptInsertAs(caller, caller)

\* an update of the row with the given id under "Admin can update receipts"
ReceiptUpdate(caller, id) ==
  /\ RowsWithId(id) # {}
  /\ LET ok == ReceiptUpdatePolicy(caller)
         new(row) == ReceiptRow(row.id, row.user_id, ChangedData, row.image_url)
     IN  /\ receipts' = [i \in 1..Len(receipts) |->
                           IF ok /\ i \in RowsWithId(id) THEN new(receipts[i])
                           ELSE receipts[i]]
         /\ lastReq' = Request("update", caller, ok, IF ok THEN 1 ELSE 0)
  /\ UNCHANGED <<sessionVars, imageVars, extraVars, profiles, objects, clock, recordsView>>

\* a delete of the row with the given id under "Admin can delete receipts"
ReceiptDelete(caller, id) ==
  /\ RowsWithId(id) # {}
  /\ LET ok == ReceiptDeletePolicy(caller)
     IN  /\ receipts' = IF ok THEN WithoutRows(receipts, RowsWithId(id)) ELSE receipts
         /\ lastReq' = Request("delete", caller, ok, IF ok THEN 1 ELSE 0)
  /\ UNCHANGED <<sessionVars, imageVars, extraVars, profiles, objects, clock, recordsView>>

\* a read of the table under "Everyone can view all receipts"
ReceiptSelect(caller) ==
  /\ LET ok == ReceiptSelectPolicy(caller)
     IN  lastReq' = Request("select", caller, ok, IF ok THEN Len(receipts) ELSE 0)
  /\ UNCHANGED <<sessionVars, imageVars, extraVars, profiles, receipts, objects, clock, recordsView>>

InitStore ==
  /\ ExtraIdle
  /\ SessionIdle
  /\ user = "u1"
  /\ profiles \in [Users -> Roles]
  /\ receipts = <<>>
  /\ objects = {}
  /\ clock = 0
  /\ recordsView = <<>>
  /\ lastReq = NoReq

NextStore ==
  \/ \E uid \in Users, role \in Roles : AdminSetRole(uid, role)
  \/ \E caller \in Callers : ReceiptInsert(caller)
  \/ \E caller \in Callers, id \in 1..MaxRows : ReceiptUpdate(caller, id)
  \/ \E caller \in Callers, id \in 1..MaxRows : ReceiptDelete(caller, id)
  \/ \E caller \in Callers : ReceiptSelect(caller)

SpecStore == InitStore /\ [][NextStore]_vars

----------------------------------------------------------------------------
(* SpecAI: the ai_records table under its policies                         *)
(* (supabase_ai_records_migration.sql lines 2-40), the service functions   *)
(* (aiRecordService.ts lines 11-67) and the AIRecords component's handlers *)

MaxAiRows == 2

AiDates == {1, 2}                  \* ai_date values, as day numbers

AiSelectPolicy(caller, row) == caller = row.user_id
AiInsertPolicy(caller, row) == caller = row.user_id
AiUpdatePolicy(caller, row) == caller = row.user_id
\* a delete policy that lets any signed-in user delete
AiDeletePolicyAnyUser(caller, row) == caller \in Users
AiDeletePolicy(caller, row) == caller = row.user_id

AiRow(id, userId, animalTag, aiDate) ==
  [id |-> id, user_id |-> userId, animal_tag |-> animalTag, ai_date |-> aiDate]

\* .order("ai_date", { ascending: false }): the orders of the rows that are
\* descending in ai_date; rows of equal date come in any order
AiOrdered(rows) ==
  LET n == Len(rows)
      perms == {p \in [1..n -> 1..n] : \A i, j \in 1..n : i # j => p[i] # p[j]}
  IN  {[i \in 1..n |-> rows[p[i]]] : p \in
         {q \in perms : \A i \in 1..(n - 1) : rows[q[i]].ai_date >= rows[q[i + 1]].ai_date}}

\* getUserAIRecords(userId) as seen by the caller: the rows the select policy
\* shows, filtered by .eq("user_id", userId)
getUserAIRecords(caller, userId) ==
  LET Shown(row) == AiSelectPolicy(caller, row) /\ row.user_id = userId
  IN  AiOrdered(SelectSeq(aiRecords, Shown))

\* a select through the API by any caller for any user id
AiSelect(caller, userId) ==
  /\ \E result \in getUserAIRecords(caller, userId) :
       /\ aiView' = result
       /\ lastReq' = Request("select", caller, TRUE, Len(result))
  /\ UNCHANGED <<sessionVars, imageVars, profiles, receipts, objects, clock, recordsView,
                 globalFilter, groups, aiRecords, accounts>>

\* saveAIRecord(userId, animalTag, aiDate) sent by any caller
AiInsert(caller, userId, animalTag, aiDate) ==
  /\ Len(aiRecords) < MaxAiRows
  /\ LET row == AiRow(NewId(aiRecords), userId, animalTag, aiDate)
         ok == AiInsertPolicy(caller, row)
     IN  /\ aiRecords' = IF ok THEN Append(aiRecords, row) ELSE aiRecords
         /\ aiView' = IF ok THEN <<row>> ELSE <<>>          \* .select().single()
         /\ lastReq' = Request("insert", caller, ok, IF ok THEN 1 ELSE 0)
  /\ UNCHANGED <<sessionVars, imageVars, profiles, receipts, objects, clock, recordsView,
                 globalFilter, groups, accounts>>

\* an update of the row with the given id sent through the API: the rows the
\* update policy shows are changed; a changed row must satisfy the policy
\* again, otherwise the statement fails
AiUpdate(caller, id, userId, aiDate) ==
  /\ \E i \in 1..Len(aiRecords) : aiRecords[i].id = id
  /\ LET Hit(row) == row.id = id /\ AiUpdatePolicy(caller, row)
         new(row) == AiRow(row.id, userId, row.animal_tag, aiDate)
         hits == {i \in 1..Len(aiRecords) : Hit(aiRecords[i])}
         ok == \A i \in hits : AiUpdatePolicy(caller, new(aiRecords[i]))
     IN  /\ aiRecords' = IF ok
                         THEN [i \in 1..Len(aiRecords) |->
                                 IF i \in hits THEN new(aiRecords[i]) ELSE aiRecords[i]]
                         ELSE aiRecords
         /\ lastReq' = Request("update", caller, ok, IF ok THEN Cardinality(hits) ELSE 0)
         /\ aiView' = <<>>
  /\ UNCHANGED <<sessionVars, imageVars, profiles, receipts, objects, clock, recordsView,
                 globalFilter, groups, accounts>>

\* deleteAIRecord(id) sent by any caller: the rows the delete policy shows
\* are removed; a delete that matches no row is not an error
AiDelete(caller, id) ==
  /\ LET Stays(row) == ~(row.id = id /\ AiDeletePolicy(caller, row))
     IN  /\ aiRecords' = SelectSeq(aiRecords, Stays)
         /\ lastReq' = Request("delete", caller, TRUE,
                               Len(aiRecords) - Len(SelectSeq(aiRecords, Stays)))
         /\ aiView' = <<>>
  /\ UNCHANGED <<sessionVars, imageVars, profiles, receipts, objects, clock, recordsView,
                 globalFilter, groups, accounts>>

InitAI ==
  /\ SessionIdle
  /\ user = "none"
  /\ profiles = [uid \in Users |-> "member"]
  /\ receipts = <<>>
  /\ objects = {}
  /\ clock = 0
  /\ recordsView = <<>>
  /\ lastReq = NoReq
  /\ globalFilter = <<>>
  /\ groups = <<>>
  /\ aiRecords = <<>>
  /\ aiView = <<>>
  /\ accounts = Users

NextAI ==
  \/ \E caller \in Callers, userId \in Users : AiSelect(caller, userId)
  \/ \E caller \in Callers, userId \in Users, aiDate \in AiDates :
       AiInsert(caller, userId, "tag", aiDate)
  \/ \E caller \in Callers, id \in 1..MaxAiRows, userId \in Users :
       AiUpdate(caller, id, userId, 2)
  \/ \E caller \in Callers, id \in 1..MaxAiRows : AiDelete(caller, id)

SpecAI == InitAI /\ [][NextAI]_vars

----------------------------------------------------------------------------
(* SpecSignup: accounts and their profiles (SUPABASE_SCHEMA.sql lines      *)
(* 7-40, 115-127; AuthContext signup, part_002 lines 49-70). profiles is a *)
(* function of the id, its PRIMARY KEY.                                    *)

\* role text NOT NULL ... CHECK (role IN ('admin', 'member', 'viewer'))
RoleCheck(role) == role \in Roles

\* "Users can update own profile", "Admin can update any profile"
ProfileUpdatePolicy(caller, id) ==
  /\ caller \in DOMAIN profiles
  /\ (caller = id \/ profiles[caller] = "admin")

\* a trigger that creates the profile as a viewer
handle_new_user_viewer(id) == [uid \in DOMAIN profiles \cup {id} |->
                                 IF uid = id THEN "viewer" ELSE profiles[uid]]

\* handle_new_user, fired after the insert on auth.users
handle_new_user(id) == [uid \in DOMAIN profiles \cup {id} |->
                          IF uid = id THEN "member" ELSE profiles[uid]]

\* signup(email, password, fullName): auth.signUp creates the account and the
\* trigger its profile; with a session the client then sets full_name on its
\* own row, which leaves the role alone. Whether signUp opens a session
\* depends on the project's email confirmation setting.
SignUp(uid, session) ==
  /\ uid \notin accounts
  /\ accounts' = accounts \cup {uid}
  /\ profiles' = handle_new_user(uid)
  /\ user' = IF session THEN uid ELSE user
  /\ lastReq' = Request("signup", IF session THEN uid ELSE "anon", TRUE, 1)
  /\ UNCHANGED <<apiKey, tz, entryMode, selectedImage, compressedBlob, parsedData,
                 isProcessing, isEditing, isSaving, uploads, saving, lastAlert, imageVars,
                 receipts, objects, clock, recordsView, globalFilter, groups, aiRecords,
                 aiView>>

\* an insert into profiles sent through the API: the table has no INSERT
\* policy, so row-level security refuses it
ProfileInsert(caller, id, role) ==
  /\ lastReq' = Request("profileInsert", caller, FALSE, 0)
  /\ UNCHANGED <<sessionVars, imageVars, extraVars, profiles, receipts, objects, clock,
                 recordsView>>

\* an update of a profile's role sent through the API
ProfileUpdate(caller, id, role) ==
  /\ LET hit == id \in DOMAIN profiles /\ ProfileUpdatePolicy(caller, id)
         ok == hit => RoleCheck(role)
     IN  /\ profiles' = IF hit /\ ok THEN [profiles EXCEPT ![id] = role] ELSE profiles
         /\ lastReq' = Request("profileUpdate", caller, ok, IF hit /\ ok THEN 1 ELSE 0)
  /\ UNCHANGED <<sessionVars, imageVars, extraVars, receipts, objects, clock, recordsView>>

\* a delete of a profile sent through the API: no DELETE policy, no row is
\* visible to the statement
ProfileDelete(caller, id) ==
  /\ lastReq' = Request("profileDelete", caller, TRUE, 0)
  /\ UNCHANGED <<sessionVars, imageVars, extraVars, profiles, receipts, objects, clock,
                 recordsView>>

InitSignup ==
  /\ SessionIdle
  /\ user = "none"
  /\ accounts = {}
  /\ profiles = [uid \in {} |-> "member"]
  /\ receipts = <<>>
  /\ objects = {}
  /\ clock = 0
  /\ recordsView = <<>>
  /\ lastReq = NoReq
  /\ globalFilter = <<>>
  /\ groups = <<>>
  /\ aiRecords = <<>>
  /\ aiView = <<>>

NextSignup ==
  \/ \E uid \in Users, session \in BOOLEAN : SignUp(uid, session)
  \/ \E caller \in accounts \cup {"anon"}, id \in Users, role \in Roles :
       ProfileInsert(caller, id, role)
  \/ \E caller \in accounts \cup {"anon"}, id \in Users, role \in Roles \cup {"owner"} :
       ProfileUpdate(caller, id, role)
  \/ \E caller \in accounts \cup {"anon"}, id \in Users : ProfileDelete(caller, id)
  \/ \E uid \in accounts, role \in Roles : AdminSetRole(uid, role)

SpecSignup == InitSignup /\ [][NextSignup]_vars

----------------------------------------------------------------------------
(* SpecView: the Records view grouping the loaded list by month            *)
(* (aiRecordService.ts lines 106-130, 176-241)                             *)

MaxList == 3           \* receipts in the list the view has loaded

UpperCase == << "A", "D", "F", "J", "L", "M", "N", "U" >>
LowerCase == << "a", "d", "f", "j", "l", "m", "n", "u" >>

\* String.prototype.toLowerCase, over the letters that occur
toLowerCase(s) ==
  [i \in 1..Len(s) |->
     IF \E k \in 1..Len(UpperCase) : UpperCase[k] = s[i]
     THEN LowerCase[CHOOSE k \in 1..Len(UpperCase) : UpperCase[k] = s[i]]
     ELSE s[i]]

\* the text a column of type text holds for a number the client sent: the
\* integer part, then the written decimals
NumText(v) ==
  ToStr(v.n \div 1000) \o
    (IF v.dp = 0 THEN <<>>
     ELSE << "." >> \o SubSeq(PadStart(ToStr(v.n % 1000), 3), 1, v.dp))

\* String(val) of a row's value: a column left out on insert reads back null
StringOf(v) ==
  CASE v.t = "text" -> v.s
    [] v.t = "num" -> NumText(v)
    [] OTHER -> << "n", "u", "l", "l" >>

\* Object.values(r) as texts
RowTexts(r) ==
  << ToStr(r.id), << r.user_id >>, StringOf(r.date), StringOf(r.quantity), StringOf(r.fat),
     StringOf(r.clr), StringOf(r.fat_kg), StringOf(r.snf_kg), StringOf(r.base_rate),
     StringOf(r.rate), StringOf(r.amount), getPublicUrl(r.image_url) >>

\* the filter's test of one receipt (lines 108-112)
MatchesFilter(r, filter) ==
  \E i \in 1..Len(RowTexts(r)) :
    Includes(toLowerCase(RowTexts(r)[i]), toLowerCase(filter))

\* date-fns parse(s, 'dd/MM/yyyy', new Date()): dd and MM take one or two
\* digits, yyyy one to four, the separators are literal, whatever follows
\* must be white space; the day must exist in the month of the year.
\* [ok |-> FALSE] stands for Invalid Date.
TakeDigits(s, max) ==
  LET n == CHOOSE k \in 0..max :
             /\ k <= Len(s)
             /\ \A i \in 1..k : s[i] \in Digits
             /\ (k = max \/ k = Len(s) \/ s[k + 1] \notin Digits)
  IN  SubSeq(s, 1, n)

Rest(s, n) == SubSeq(s, n + 1, Len(s))

DaysInMonth(m, y) ==
  CASE m \in {1, 3, 5, 7, 8, 10, 12} -> 31
    [] m \in {4, 6, 9, 11} -> 30
    [] OTHER -> IF DaysInYear(y) = 366 THEN 29 ELSE 28

InvalidDate == [ok |-> FALSE, d |-> 0, m |-> 0, y |-> 0]

parse(s) ==
  LET dd == TakeDigits(s, 2)
      s1 == Rest(s, Len(dd))
      mm == TakeDigits(Rest(s1, 1), 2)
      s2 == Rest(s1, 1 + Len(mm))
      yyyy == TakeDigits(Rest(s2, 1), 4)
      s3 == Rest(s2, 1 + Len(yyyy))
      d == DigitsVal(dd)
      m == DigitsVal(mm)
      y == DigitsVal(yyyy)
  IN  IF /\ dd # <<>> /\ s1 # <<>> /\ s1[1] = "/"
         /\ mm # <<>> /\ s2 # <<>> /\ s2[1] = "/"
         /\ yyyy # <<>>
         /\ \A i \in 1..Len(s3) : s3[i] = " "
         /\ y >= 1 /\ m >= 1 /\ m <= 12 /\ d >= 1 /\ d <= DaysInMonth(m, y)
      THEN [ok |-> TRUE, d |-> d, m |-> m, y |-> y]
      ELSE InvalidDate

MonthNames == << "January", "February", "March", "April", "May", "June", "July",
                 "August", "September", "October", "November", "December" >>

\* format(date, 'MMMM yyyy'); it throws on Invalid Date
format(date) == [month |-> MonthNames[date.m], year |-> PadStart(ToStr(date.y), 4)]

\* a grouping that files a receipt with an invalid date under a key of its own
GroupStepInvalidKey(grouped, receipt) ==
  LET date == parse(StringOf(receipt.date))
      monthYear == IF date.ok THEN format(date) ELSE [month |-> "Invalid Date", year |-> <<>>]
  IN  IF \E i \in 1..Len(grouped) : grouped[i].key = monthYear
      THEN [i \in 1..Len(grouped) |->
              IF grouped[i].key = monthYear
              THEN [key |-> monthYear, rows |-> Append(grouped[i].rows, receipt)]
              ELSE grouped[i]]
      ELSE Append(grouped, [key |-> monthYear, rows |-> <<receipt>>])

\* the reducer of groupReceiptsByMonth (lines 115-129): the groups keep the
\* order in which their keys were first seen; format throws on Invalid Date
\* and the catch leaves the groups as they are
GroupStep(grouped, receipt) ==
  LET date == parse(StringOf(receipt.date))
      monthYear == format(date)
  IN  IF ~date.ok THEN grouped
      ELSE IF \E i \in 1..Len(grouped) : grouped[i].key = monthYear
      THEN [i \in 1..Len(grouped) |->
              IF grouped[i].key = monthYear
              THEN [key |-> monthYear, rows |-> Append(grouped[i].rows, receipt)]
              ELSE grouped[i]]
      ELSE Append(grouped, [key |-> monthYear, rows |-> <<receipt>>])

RECURSIVE Reduce(_, _)
Reduce(grouped, rows) ==
  IF rows = <<>> THEN grouped ELSE Reduce(GroupStep(grouped, Head(rows)), Tail(rows))

groupReceiptsByMonth(list, filter) ==
  LET Matches(r) == MatchesFilter(r, filter)
      filtered == IF filter # <<>> THEN SelectSeq(list, Matches) ELSE list
  IN  Reduce(<<>>, filtered)

NaN == Txt(<< "N", "a", "N" >>)

\* monthReceipts.reduce((sum, r) => sum + parseFloat(r.amount), 0).toFixed(2)
\* (lines 237): the texts the total may show
RECURSIVE SumAmounts(_)
SumAmounts(rows) ==
  IF rows = <<>> THEN 0 ELSE Head(rows).amount.n + SumAmounts(Tail(rows))

TotalTexts(rows) ==
  IF \E i \in 1..Len(rows) : rows[i].amount.t # "num" THEN {NaN}
  ELSE ToFixed2(SumAmounts(rows) * 100)

\* (num / den).toFixed(1) for den > 0: the nearest tenth, given in
\* thousandths; a tie may fall to either side
ToFixed1Ratio(num, den) ==
  LET q == (num * 10) \div den
      r == (num * 10) % den
  IN  IF 2 * r < den THEN {Num(q * 100, 1)}
      ELSE IF 2 * r > den THEN {Num((q + 1) * 100, 1)}
      ELSE {Num(q * 100, 1), Num((q + 1) * 100, 1)}

\* the SNF cell of a row (lines 197-200): from snf_kg and the quantity when
\* snf_kg is there, else from CLR and fat; the texts the cell may show
SnfShown(receipt) ==
  IF Truthy(receipt.snf_kg)
  THEN IF receipt.snf_kg.t = "num" /\ receipt.quantity.t = "num" /\ receipt.quantity.n > 0
       THEN ToFixed1Ratio(receipt.snf_kg.n * 100, receipt.quantity.n)
       ELSE {NaN}            \* NaN or Infinity
  ELSE IF receipt.clr.t = "num" /\ receipt.fat.t = "num"
       THEN ToFixed1Ratio(4 * receipt.clr.n - receipt.fat.n, 4000)
       ELSE {NaN}

\* what the view shows for a list and a filter: the groups with their totals
Rendered(list, filter) ==
  LET gs == groupReceiptsByMonth(list, filter)
      totals == {t \in [1..Len(gs) -> UNION {TotalTexts(gs[i].rows) : i \in 1..Len(gs)}] :
                   \A i \in 1..Len(gs) : t[i] \in TotalTexts(gs[i].rows)}
  IN  {[i \in 1..Len(gs) |-> [key |-> gs[i].key, rows |-> gs[i].rows, total |-> t[i]]] :
         t \in totals}

\* the filter input's onChange (lines 155-160) and the render that follows
SetGlobalFilter(filter) ==
  /\ filter # globalFilter
  /\ globalFilter' = filter
  /\ groups' \in Rendered(recordsView, filter)
  /\ UNCHANGED <<sessionVars, storeVars, imageVars, aiRecords, aiView, accounts>>

\* receipts the application can have stored: three of January and February 2024, one
\* whose date names no day of the calendar, one without amount and without
\* fat kg, and one whose date is written without leading zeros
ViewDate(chars) == Txt(chars)
ViewReceipts ==
  LET row(id, date, amount, fatKg) ==
        ReceiptRow(id, "u1",
                   [SentData EXCEPT !.date = date, !.amount = amount, !.fat_kg = fatKg],
                   FileName("u1", id))
  IN  { row(1, ViewDate(<<"0","5","/","0","1","/","2","0","2","4">>), Num(100000, 0), Num(500, 2)),
        row(2, ViewDate(<<"2","0","/","0","1","/","2","0","2","4">>), Num(200000, 0), Num(500, 2)),
        row(3, ViewDate(<<"0","1","/","0","2","/","2","0","2","4">>), Num(300000, 0), Num(500, 2)),
        row(4, ViewDate(<<"3","1","/","0","2","/","2","0","2","4">>), Num(50000, 0), Num(500, 2)),
        row(5, ViewDate(<<"1","5","/","0","1","/","2","0","2","4">>), EmptyStr, Absent),
        row(6, ViewDate(<<"5","/","1","/","2","0","2","4">>), Num(443750, 2), Num(500, 2)) }

\* the lists of up to MaxList different receipts
ViewLists ==
  UNION {{list \in [1..n -> ViewReceipts] : \A i, j \in 1..n : i # j => list[i] # list[j]} :
           n \in 0..MaxList}

\* filters: part of a date, a year, the letters of "null" in capitals, and a
\* text no receipt holds
ViewFilters == { <<>>, <<"0","5","/">>, <<"2","0","2","4">>, <<"N","U","L">>, <<"z">> }

InitView ==
  /\ SessionIdle
  /\ user = "u1"
  /\ profiles = [uid \in Users |-> "member"]
  /\ receipts = <<>>
  /\ objects = {}
  /\ clock = 0
  /\ lastReq = NoReq
  /\ recordsView \in ViewLists
  /\ globalFilter = <<>>
  /\ groups \in Rendered(recordsView, <<>>)
  /\ aiRecords = <<>>
  /\ aiView = <<>>
  /\ accounts = Users

NextView == \E filter \in ViewFilters : SetGlobalFilter(filter)

SpecView == InitView /\ [][NextView]_vars

----------------------------------------------------------------------------
(* SpecRecords: receipts of several owners, and the Records view loading   *)
(* its list                                                                *)

RECURSIVE Reverse(_)
Reverse(rows) ==
  IF rows = <<>> THEN <<>> ELSE Append(Reverse(Tail(rows)), Head(rows))

RECURSIVE OwnedBy(_, _)
OwnedBy(rows, userId) ==
  IF rows = <<>> THEN <<>>
  ELSE IF Head(rows).user_id = userId
       THEN <<Head(rows)>> \o OwnedBy(Tail(rows), userId)
       ELSE OwnedBy(Tail(rows), userId)

\* .from("receipts").select("*").eq("user_id", userId).order("created_at", desc)
getUserReceipts(caller, userId) ==
  IF ReceiptSelectPolicy(caller) THEN Reverse(OwnedBy(receipts, userId)) ELSE <<>>

\* AuthContext: another user signs in on this device
SignIn(uid) ==
  /\ user # uid
  /\ user' = uid
  /\ recordsView' = <<>>
  /\ lastReq' = NoReq
  /\ UNCHANGED <<apiKey, tz, entryMode, selectedImage, compressedBlob, parsedData,
                 isProcessing, isEditing, isSaving, uploads, saving, lastAlert,
                 imageVars, extraVars, profiles, receipts, objects, clock>>

\* loadReceipts of the Records view (aiRecordService.ts lines 91-103)
LoadReceipts ==
  /\ user \in Users
  /\ recordsView' = getUserReceipts(user, user)
  /\ lastReq' = Request("select", user, ReceiptSelectPolicy(user),
                        Len(getUserReceipts(user, user)))
  /\ UNCHANGED <<sessionVars, imageVars, extraVars, profiles, receipts, objects, clock>>

InitRecords ==
  /\ ExtraIdle
  /\ SessionIdle
  /\ user \in Users
  /\ profiles \in [Users -> Roles]
  /\ receipts = <<>>
  /\ objects = {}
  /\ clock = 0
  /\ recordsView = <<>>
  /\ lastReq = NoReq

NextRecords ==
  \/ \E caller \in Users, userId \in Users : ReceiptInsertAs(caller, userId)
  \/ \E uid \in Users : SignIn(uid)
  \/ LoadReceipts

SpecRecords == InitRecords /\ [][NextRecords]_vars

----------------------------------------------------------------------------
(* SpecTab: one browser tab in which users sign out and sign in. App stays *)
(* mounted while it renders <Login /> (part_001 lines 24-62), so its state *)
(* hooks keep their values.                                                *)

\* logout (part_002 lines 72-75): signOut, then onAuthStateChange sets the
\* user to null (lines 36-40); the Records component unmounts
Logout ==
  /\ user # "none"
  /\ user' = "none"
  /\ recordsView' = <<>>
  /\ lastReq' = Request("logout", user, TRUE, 0)
  /\ UNCHANGED <<apiKey, tz, entryMode, selectedImage, compressedBlob, parsedData,
                 isProcessing, isEditing, isSaving, uploads, saving, lastAlert,
                 imageVars, extraVars, profiles, receipts, objects, clock>>

\* login (part_002 lines 44-47) on the Login screen with a user's credentials
Login(uid) ==
  /\ user = "none"
  /\ user' = uid
  /\ lastReq' = Request("login", uid, TRUE, 0)
  /\ UNCHANGED <<apiKey, tz, entryMode, selectedImage, compressedBlob, parsedData,
                 isProcessing, isEditing, isSaving, uploads, saving, lastAlert,
                 imageVars, extraVars, profiles, receipts, objects, clock, recordsView>>

NextTab ==
  \/ NextLive
  \/ Logout
  \/ \E uid \in Users : Login(uid)

SpecTab == InitLive /\ [][NextTab]_vars

----------------------------------------------------------------------------
(* Properties *)

\* an upload of the bag finishes in this step at the given stage
Finishes(u, stage) ==
  /\ BagIn(u, uploads) /\ u.stage = stage
  /\ uploads' = uploads (-) SetToBag({u})

\* days since 1970-01-01 of a civil date (proleptic Gregorian calendar)
DaysFromCivil(y, m, d) ==
  LET yy == IF m <= 2 THEN y - 1 ELSE y
      era == yy \div 400
      yoe == yy - era * 400
      mp == IF m > 2 THEN m - 3 ELSE m + 9
      doy == (153 * mp + 2) \div 5 + d - 1
      doe == yoe * 365 + yoe \div 4 - yoe \div 100 + doy
  IN  era * 146097 + doe - 719468

\* a text DD/MM/YYYY, zero-padded, that names the local day of the time t
IsLocalDayOf(s, t, zone) ==
  /\ Len(s) = 10
  /\ s[3] = "/" /\ s[6] = "/"
  /\ \A i \in {1, 2, 4, 5, 7, 8, 9, 10} : s[i] \in Digits
  /\ LET d == DigitsVal(SubSeq(s, 1, 2))
         m == DigitsVal(SubSeq(s, 4, 5))
         y == DigitsVal(SubSeq(s, 7, 10))
     IN  /\ m \in 1..12 /\ d \in 1..31
         /\ DaysFromCivil(y, m, d) * 86400 <= t + zone
         /\ t + zone < (DaysFromCivil(y, m, d) + 1) * 86400

\* the "date" member written in a response text, Absent when there is none
WrittenDate(text) ==
  LET at == {i \in 1..Len(text) : text[i].k = "date"}
  IN  IF at = {} THEN Absent ELSE text[CHOOSE i \in at : \A j \in at : j <= i].v

\* C7: a successful extraction whose object has no date field yields the
\* capture file's last-modified day in local time as DD/MM/YYYY, zero-padded;
\* when the object has a date, the record carries that date.
C7_DateFallback ==
  [][\A u \in BagToSet(uploads) :
       (Finishes(u, "extract") /\ parsedData.null /\ ~parsedData'.null) =>
          IF WrittenDate(parsedData'.rawText) = Absent
          THEN /\ parsedData'.date.t = "text"
               /\ IsLocalDayOf(parsedData'.date.s, u.file.lastModified, tz)
          ELSE parsedData'.date = WrittenDate(parsedData'.rawText)]_vars

\* a capture at 20:00 UTC on 29 February read at +05:30 is dated 1 March
C7_Witness ==
  /\ ~parsedData.null /\ ~parsedData.manual
  /\ WrittenDate(parsedData.rawText) = Absent
  /\ tz = 19800
  /\ parsedData.date = Txt(<<"0","1","/","0","3","/","2","0","2","4">>)

\* C9: the canvas of compressImage is at most 1600 on both sides, keeps the
\* source's aspect ratio within one pixel, and has the source's size when
\* the source is at most 1600 on both sides.
C9_CanvasBounded ==
  canvas # NoCanvas =>
    /\ canvas.w <= 1600 /\ canvas.h <= 1600
    /\ canvas.w * img.h - canvas.h * img.w < img.w
    /\ canvas.h * img.w - canvas.w * img.h < img.h
    /\ (img.w <= 1600 /\ img.h <= 1600) => (canvas.w = img.w /\ canvas.h = img.h)
    /\ (img.w > 1600 \/ img.h > 1600) => (canvas.w = 1600 \/ canvas.h = 1600)

\* a square image larger than the cap has been scaled to 1600 x 1600
C9_Witness ==
  /\ img.w = img.h /\ img.w > 1600
  /\ canvas.w = 1600 /\ canvas.h = 1600

\* a stored or reviewed value lies outside the closed range lo..hi (thousandths)
Violates(v, lo, hi) == v.t = "num" /\ (v.n < lo \/ v.n > hi)

\* a row of the receipts table carries a field violation
RowViolation(row) ==
  \/ Violates(row.quantity, 100, 500000)
  \/ Violates(row.fat, 2000, 11000)
  \/ Violates(row.clr, 15000, 40000)
  \/ Violates(row.fat_kg, 10, 50000)
  \/ Violates(row.snf_kg, 10, 50000)
  \/ Violates(row.rate, 1000, 200000)
  \/ Violates(row.amount, 1000, 100000000)
  \/ row.date.t = "text" /\ ~DatePattern(row.date.s)

\* C1: every row of the receipts table is free of field violations, whether
\* or not the record was ever opened for editing.
C1_StoredRowsValid ==
  \A i \in 1..Len(receipts) : ~RowViolation(receipts[i])

\* C4: a result that arrives late is discarded: the record under review
\* changes only by an accepted edit, and an extraction's record is never
\* shown without the image of its capture.
C4_LateResultDiscarded ==
  [][/\ (~parsedData.null /\ ~parsedData'.null /\ parsedData' # parsedData)
           => (isEditing /\ ~isEditing')
     /\ (~parsedData'.null /\ ~parsedData'.manual) => compressedBlob' # NoBlob]_vars

\* the response text is one well-formed object, possibly wrapped in prose
WellFormedResponse(text) ==
  \E i, j \in 1..Len(text) :
     /\ i < j
     /\ text[i] = LBrace /\ text[j] = RBrace
     /\ \A k \in 1..(i - 1) : text[k] # LBrace
     /\ \A k \in (j + 1)..Len(text) : text[k] # RBrace
     /\ \A k \in (i + 1)..(j - 1) : text[k].k \in FieldNames

\* C5: when an extraction call finishes, isProcessing is false, and either
\* the response was one well-formed object or parsedData is left as it was
\* and the user is notified of the failure.
C5_MalformedResponse ==
  [][\A u \in BagToSet(uploads) :
       Finishes(u, "extract") =>
          /\ isProcessing' = FALSE
          /\ \/ parsedData' = parsedData /\ lastAlert' = "processFailed"
             \/ ~parsedData'.null /\ WellFormedResponse(parsedData'.rawText)]_vars

\* an extraction has failed after its image was compressed: nothing to review
C5_Witness ==
  /\ lastAlert = "processFailed"
  /\ parsedData.null /\ ~isProcessing
  /\ selectedImage # NoBlob /\ uploads = EmptyBag

\* C6: without an API credential no capture is ever in flight, isProcessing
\* stays false, no image or blob is stored, and the step that shows the
\* configuration message changes nothing else.
C6_NoCredential ==
  [][apiKey = "" =>
       /\ uploads' = EmptyBag /\ isProcessing' = FALSE
       /\ selectedImage' = NoBlob /\ compressedBlob' = NoBlob
       /\ (lastAlert' = "config" /\ lastAlert # "config") =>
             UNCHANGED <<user, tz, entryMode, selectedImage, compressedBlob, parsedData,
                         isProcessing, isEditing, isSaving, uploads, saving, storeVars>>]_vars

\* an image was selected without a credential
C6_Witness ==
  /\ apiKey = "" /\ lastAlert = "config"
  /\ uploads = EmptyBag /\ parsedData.null /\ ~isProcessing

\* the reviewed record has a CLR member written in its response text
WrittenClr(pd) ==
  \E i \in 1..Len(pd.rawText) : pd.rawText[i].k = "clr"

\* C8: a record that reaches review without a CLR of its own has
\* CLR = SNF + 0.25 x fat to two decimals when SNF and fat are present,
\* and no CLR otherwise.
C8_ClrDerived ==
  (~parsedData.null /\ ~parsedData.manual /\ ~WrittenClr(parsedData)) =>
     IF parsedData.snfKg.t = "num" /\ parsedData.fat.t = "num"
     THEN /\ parsedData.clr.t = "num"
          /\ parsedData.clr.dp = 2
          /\ 4 * parsedData.clr.n - (4 * parsedData.snfKg.n + parsedData.fat.n) \in -20..20
     ELSE ~Truthy(parsedData.clr)

\* C10: the step in which a save fails leaves parsedData, compressedBlob and
\* selectedImage as they were, clears isSaving, stores no row and starts no
\* further save; the record is still there to be saved again.
C10_SaveFailureKeepsState ==
  [][(saving.stage \in {"upload", "insert"} /\ lastAlert' = "saveFailed"
        /\ saving'.stage \notin {"upload", "insert"}) =>
       /\ UNCHANGED <<parsedData, compressedBlob, selectedImage, receipts>>
       /\ isSaving' = FALSE
       /\ saving' = NoSave
       /\ ~parsedData'.null]_vars

\* a save has failed and the Save button is enabled again on the same record
C10_Witness ==
  /\ lastAlert = "saveFailed"
  /\ saving = NoSave /\ ~isSaving
  /\ ~parsedData.null /\ receipts = <<>>
  /\ SaveButtonEnabled

\* C2: the list the records view loads holds every stored receipt, whoever
\* its owner is, for every authenticated user.
C2_ListIsTenantWide ==
  (lastReq.op = "select" /\ lastReq.caller \in Users) =>
     \A i \in 1..Len(receipts) : \E j \in 1..Len(recordsView) : recordsView[j] = receipts[i]

\* C3: a step that adds a receipt row serves an admin or a member; a step
\* that changes or removes one serves an admin; every insert, update and
\* delete of a viewer leaves the table as it was, and a viewer's read is
\* served with every row.
C3_ReceiptPolicy ==
  [][LET req == lastReq'
         role == IF req.caller \in Users THEN profiles[req.caller] ELSE "none"
     IN  /\ Len(receipts') > Len(receipts) => role \in {"admin", "member"}
         /\ (receipts' # receipts /\ Len(receipts') <= Len(receipts)) => role = "admin"
         /\ (role = "viewer" /\ req.op \in {"insert", "update", "delete"}) =>
               (receipts' = receipts /\ ~req.ok)
         /\ (role = "viewer" /\ req.op = "select") =>
               (req.ok /\ req.n = Len(receipts))]_vars

\* a viewer's insert, update or delete has been refused on a table with a row
C3_Witness ==
  /\ lastReq.caller \in Users
  /\ profiles[lastReq.caller] = "viewer"
  /\ lastReq.op \in {"update", "delete"}
  /\ ~lastReq.ok
  /\ receipts # <<>>

\* C11: a save is all-or-nothing: once no save is between its upload and
\* its insert, every image object of the bucket belongs to a receipt row
\* and every receipt row has its image object.
C11_SaveAllOrNothing ==
  saving.stage # "insert" =>
    /\ \A p \in objects : \E i \in 1..Len(receipts) : receipts[i].image_url = p
    /\ \A i \in 1..Len(receipts) : receipts[i].image_url \in objects

\* the closed ranges of the edit form as the specification lists them, in
\* thousandths
ListedFields == {"quantity", "fat", "clr", "fatKg", "snfKg", "rate", "amount"}
ListedRangeOk(data) ==
  /\ DateRuleOk(data["date"])
  /\ \A f \in ListedFields :
       data[f].t = "num" => (data[f].n >= RuleMin(f) /\ data[f].n <= RuleMax(f))

\* C15: whenever the edit form is open, a submission is accepted exactly
\* when every non-empty listed numeric field lies in its closed range and a
\* non-empty date matches DD/MM/YYYY.
C15_EditAcceptedIffInRange ==
  (ReviewShown /\ isEditing) =>
    \A choice \in EditChoices :
      EditAccepted(EditData(parsedData, choice)) <=> ListedRangeOk(EditData(parsedData, choice))

\* C20: a step in which the edit form's submission is accepted replaces the
\* record's fields by the submitted ones, keeps rawText, closes the form and
\* leaves selectedImage and compressedBlob alone; submitting the same edit
\* again is accepted and leaves parsedData as it is.
C20_AcceptedEditFrame ==
  [][ (ReviewShown /\ isEditing /\ ~isEditing' /\ ~parsedData'.null) =>
        /\ parsedData'.rawText = parsedData.rawText
        /\ selectedImage' = selectedImage
        /\ compressedBlob' = compressedBlob
        /\ \E choice \in EditChoices :
             /\ \A f \in FieldNames : parsedData'[f] = EditData(parsedData, choice)[f]
             /\ EditAccepted(EditData(parsedData', choice))
             /\ MergeEdit(parsedData', EditData(parsedData', choice)) = parsedData'
    ]_vars

\* an edit that retyped CLR was accepted on a manual record
C20_Witness ==
  /\ ReviewShown /\ ~isEditing
  /\ parsedData.manual
  /\ parsedData.clr = Num(28000, 1)

\* C17: a row the session's save inserts is shown by the records view as a
\* manual entry exactly when it was saved on the manual path.
C17_EntryTypeShown ==
  [][ (saving.stage = "insert" /\ Len(receipts') = Len(receipts) + 1) =>
        (isManualEntry(getPublicUrl(receipts'[Len(receipts')].image_url)) <=> saving.manual)
    ]_vars

AiRows(rows) == {rows[i] : i \in 1..Len(rows)}

\* C16: ai_records is owner-scoped: a request returns only rows of its
\* caller, adds only rows of its caller, and changes or removes only rows of
\* its caller; a delete aimed at another user's row removes nothing.
C16_AiRecordsOwnerScoped ==
  [][ /\ \A row \in AiRows(aiView') : row.user_id = lastReq'.caller
      /\ \A row \in AiRows(aiRecords') \ AiRows(aiRecords) : row.user_id = lastReq'.caller
      /\ \A row \in AiRows(aiRecords) \ AiRows(aiRecords') : row.user_id = lastReq'.caller
    ]_vars

\* u2 sent a delete while every id belonged to a row of u1: nothing was removed
C16_Witness ==
  /\ lastReq = Request("delete", "u2", TRUE, 0)
  /\ \A id \in 1..MaxAiRows :
       \E row \in AiRows(aiRecords) : row.id = id /\ row.user_id = "u1"

\* C19: after every step each account has a profile and each profile an
\* account (one row per id), every profile's role is admin, member or
\* viewer, and a profile that the step created has the role member.
C19_OneMemberProfilePerAccount ==
  [][ /\ DOMAIN profiles' = accounts'
      /\ \A uid \in DOMAIN profiles' : profiles'[uid] \in {"admin", "member", "viewer"}
      /\ \A uid \in DOMAIN profiles' \ DOMAIN profiles : profiles'[uid] = "member"
    ]_vars

\* both users have signed up, the second just now, the first was made admin
C19_Witness ==
  /\ accounts = Users
  /\ lastReq.op = "signup"
  /\ \E uid \in Users : profiles[uid] = "admin"
  /\ \E uid \in Users : profiles[uid] = "member"

\* a control of the page the user can act on
UserActionEnabled == UploadSectionShown \/ ReviewShown \/ ResetButtonEnabled

\* C18: after a failed compression, extraction or save, once the pending
\* calls have returned, the session is in a state where neither isProcessing
\* nor isSaving is set and the user can act.
C18_FailureLeadsToUsableState ==
  (lastAlert \in {"processFailed", "saveFailed"}) ~>
    (~isProcessing /\ ~isSaving /\ UserActionEnabled)

\* an extraction has failed and the page is usable again
C18_Witness ==
  /\ lastAlert = "processFailed"
  /\ selectedImage # NoBlob
  /\ ~isProcessing /\ ~isSaving /\ UserActionEnabled

\* the groups, by position, that hold a receipt
GroupsOf(r) == {g \in 1..Len(groups) : \E k \in 1..Len(groups[g].rows) : groups[g].rows[k] = r}

\* the sum of the amounts of some receipts in thousandths, a receipt without
\* amount adding nothing
RECURSIVE AmountsOf(_)
AmountsOf(rows) ==
  IF rows = <<>> THEN 0
  ELSE (IF Head(rows).amount.t = "num" THEN Head(rows).amount.n ELSE 0) + AmountsOf(Tail(rows))

AllParseable(list) == \A i \in 1..Len(list) : parse(StringOf(list[i].date)).ok

\* C12: without a filter and with parseable dates, every receipt of the list
\* is in exactly one group, the group of its date's month name and year;
\* a group holds its receipts in the order of the list; and a group's total
\* is the sum of its receipts' amounts with two decimals.
C12_GroupedByMonth ==
  (globalFilter = <<>> /\ AllParseable(recordsView)) =>
    /\ \A i \in 1..Len(recordsView) :
         /\ Cardinality(GroupsOf(recordsView[i])) = 1
         /\ \A g \in GroupsOf(recordsView[i]) :
              groups[g].key = format(parse(StringOf(recordsView[i].date)))
    /\ \A g \in 1..Len(groups) :
         LET InGroup(r) == g \in GroupsOf(r)
         IN  /\ groups[g].rows = SelectSeq(recordsView, InGroup)
             /\ groups[g].total \in ToFixed2(AmountsOf(groups[g].rows) * 100)

\* the texts of a receipt's fields; a field that is null has no text
FieldTextsOf(r) ==
  {StringOf(v) : v \in {w \in {r.date, r.quantity, r.fat, r.clr, r.fat_kg, r.snf_kg,
                               r.base_rate, r.rate, r.amount} : w.t \in {"text", "num"}}}
    \cup {ToStr(r.id), << r.user_id >>, getPublicUrl(r.image_url)}

FilterInSomeField(r, filter) ==
  \E text \in FieldTextsOf(r) : Includes(toLowerCase(text), toLowerCase(filter))

\* C13: with a non-empty filter a receipt (with a parseable date) is shown
\* in a group exactly when the filter is a case-insensitive substring of the
\* text of one of its fields; no shown group is empty; and the total of a
\* group whose receipts all have an amount is the sum of the shown receipts'
\* amounts.
C13_FilterSelectsByFieldText ==
  globalFilter # <<>> =>
    /\ \A i \in 1..Len(recordsView) :
         parse(StringOf(recordsView[i].date)).ok =>
           (GroupsOf(recordsView[i]) # {} <=> FilterInSomeField(recordsView[i], globalFilter))
    /\ \A g \in 1..Len(groups) :
         /\ groups[g].rows # <<>>
         /\ (\A k \in 1..Len(groups[g].rows) : groups[g].rows[k].amount.t = "num") =>
              groups[g].total \in ToFixed2(AmountsOf(groups[g].rows) * 100)

DateParses(r) == parse(StringOf(r.date)).ok

\* C14: a receipt whose date does not parse is in no group (and so in no
\* total), and what the view shows is what it shows for the list without
\* the receipts whose date does not parse.
C14_UnparseableDateLeftOut ==
  /\ \A i \in 1..Len(recordsView) :
       ~DateParses(recordsView[i]) => GroupsOf(recordsView[i]) = {}
  /\ groups \in Rendered(SelectSeq(recordsView, DateParses), globalFilter)

\* the filter 2024 is set, the list has a receipt dated 31/02/2024 between
\* two others, which are shown
C14_Witness ==
  /\ globalFilter = <<"2","0","2","4">>
  /\ Len(recordsView) = 3
  /\ ~DateParses(recordsView[2])
  /\ Len(groups) = 2

\* C26: every group the view shows has a total that is a number, the sum of
\* the amounts of the group's receipts with two decimals; it is never NaN.
C26_TotalsAreNumbers ==
  \A g \in 1..Len(groups) :
    /\ groups[g].total # NaN
    /\ groups[g].total.t = "num"
    /\ groups[g].total \in ToFixed2(AmountsOf(groups[g].rows) * 100)

\* C25: without a filter, a receipt of the list whose date the edit form's
\* date rule accepts is shown in exactly one month group.
C25_AcceptedDateIsGrouped ==
  globalFilter = <<>> =>
    \A i \in 1..Len(recordsView) :
      (recordsView[i].date.t = "text" /\ DatePattern(recordsView[i].date.s)) =>
        Cardinality(GroupsOf(recordsView[i])) = 1

\* C21: the row a manual save inserts shows in the SNF column the SNF the
\* user entered, with one decimal.
C21_SnfShownIsSnfEntered ==
  [][ (saving.stage = "insert" /\ saving.manual /\ Len(receipts') = Len(receipts) + 1) =>
        SnfShown(receipts'[Len(receipts')]) = ToFixed1Ratio(saving.data.snfKg.n, 1000)
    ]_vars

\* the record is a manual entry as the manual form produced it, its fat and
\* SNF inside the edit form's ranges
ManualInRange(pd) ==
  /\ ~pd.null /\ pd.manual
  /\ pd.fat.t = "num" /\ InRange("fat", pd.fat)
  /\ pd.snfKg.t = "num" /\ InRange("snfKg", pd.snfKg)
  /\ pd.clr \in ToFixed2(pd.snfKg.n * 100 + 25 * pd.fat.n)

\* C27: when the edit form is open on such a manual record, its CLR lies in
\* the CLR range and submitting the form as it stands is accepted.
C27_ManualRecordPassesEdit ==
  (ReviewShown /\ isEditing /\ ManualInRange(parsedData)) =>
    /\ InRange("clr", parsedData.clr)
    /\ EditAccepted(EditData(parsedData, [field |-> "none", v |-> EmptyStr]))

\* C22: a successful extraction leaves a record whose date is a non-empty
\* text: the date written in the response when that is a non-empty text, and
\* the capture file's local day in every other case.
C22_DateNeverEmpty ==
  [][\A u \in BagToSet(uploads) :
       (Finishes(u, "extract") /\ parsedData.null /\ ~parsedData'.null) =>
          /\ Truthy(parsedData'.date)
          /\ IF Truthy(WrittenDate(parsedData'.rawText))
             THEN parsedData'.date = WrittenDate(parsedData'.rawText)
             ELSE /\ parsedData'.date.t = "text"
                  /\ IsLocalDayOf(parsedData'.date.s, u.file.lastModified, tz)]_vars

\* C23: an update of profiles sent through the API changes a profile's role
\* only when its caller's role was admin before the update.
C23_OnlyAdminChangesRoles ==
  [][ (lastReq'.op = "profileUpdate"
         /\ \E uid \in DOMAIN profiles : profiles'[uid] # profiles[uid]) =>
        (lastReq'.caller \in DOMAIN profiles /\ profiles[lastReq'.caller] = "admin")
    ]_vars

\* C30: a row that a request adds to receipts has the user_id of the
\* request's caller.
C30_InsertedRowOwnedByCaller ==
  [][ (lastReq'.op = "insert" /\ Len(receipts') = Len(receipts) + 1) =>
        receipts'[Len(receipts')].user_id = lastReq'.caller
    ]_vars

\* C24: when a user signs in after another user signed out of the tab, no
\* record, compressed image or preview is left in the session.
C24_NoStateAcrossSessions ==
  [][ (user = "none" /\ user' \in Users
         /\ lastReq.op = "logout" /\ lastReq.caller # user') =>
        /\ parsedData'.null
        /\ compressedBlob' = NoBlob
        /\ selectedImage' = NoBlob
    ]_vars

\* C29: while a save is in flight the form is never in edit mode and the
\* record under review does not change until the save succeeds or fails.
C29_RecordFixedWhileSaving ==
  /\ [](~(isSaving /\ isEditing))
  /\ [][ (isSaving /\ isSaving') => parsedData' = parsedData ]_vars

\* a step in which handleSaveReceipt starts a save
SaveStarts ==
  /\ saving' # saving
  /\ \/ saving'.stage = "toBlob"
     \/ saving'.stage = "upload" /\ saving.stage # "toBlob"

\* C28: no save starts while one is in flight, and the step in which a save
\* succeeds stores exactly one row and leaves no record, blob or preview in
\* the session, with edit mode off and no save in flight.
C28_OneRowPerRecord ==
  [][ /\ isSaving => ~SaveStarts
      /\ Len(receipts') > Len(receipts) =>
           /\ Len(receipts') = Len(receipts) + 1
           /\ parsedData'.null
           /\ compressedBlob' = NoBlob
           /\ selectedImage' = NoBlob
           /\ ~isEditing'
           /\ ~isSaving' /\ saving' = NoSave
           /\ ~SaveButtonEnabled'
    ]_vars

\* a save has succeeded: its row is stored and the session holds no record
\* to save again
C28_Witness ==
  /\ lastAlert = "saved"
  /\ Len(receipts) = 1
  /\ parsedData.null /\ compressedBlob = NoBlob /\ selectedImage = NoBlob
  /\ ~isEditing /\ ~isSaving /\ saving = NoSave

====
